---- MODULE Spec2Model ----
(***************************************************************************)
(* State-machine model of bot.py: the SQLite store (users, carts,          *)
(* cart_items, orders, order_items, email_otps), the per-identity FSM      *)
(* context (state + data) and the handler coroutines, each cut at its      *)
(* suspension points (the awaits on the store and on the Bot API; awaits   *)
(* on the in-memory FSM storage do not suspend).                           *)
(*                                                                         *)
(* Every handler opens its own connection (db(), bot.py:127).  With the    *)
(* sqlite3 default isolation level a SELECT runs outside any transaction,  *)
(* the first INSERT/UPDATE/DELETE opens one (taking SQLite's single write  *)
(* lock) and conn.commit() publishes it; closing a connection with an open *)
(* transaction rolls it back.  A run "write ...; commit" with no await     *)
(* that reads in between is one step here: the writes are invisible to     *)
(* every other connection until the commit and no other writer can run in  *)
(* between.  The order creation of checkout_note, whose steps the claims   *)
(* speak about, is kept statement by statement.                            *)
(***************************************************************************)
EXTENDS Integers, Sequences, FiniteSets, TLC

\* ---------------------------------------------------------------- bounds
\* Inbound events (updates) delivered in one behaviour: with overlapping
\* handlers, with the cart buttons handled one at a time, and with the
\* checkout conversation handled one event at a time.
MaxEvents == 3
MaxCartEvents == 4
MaxCheckoutEvents == 5
\* Handler tasks that may be in progress at the same time.
MaxTasks == 2
\* Failures injected into handlers in one behaviour.
MaxFaults == 1
\* Updates of one behaviour of a checkout without failures.
MaxOrderEvents == 6
\* Updates of one behaviour with overlapping note messages.
MaxNoteEvents == 5
\* Updates of one behaviour in which every flow may be started.
MaxFlowEvents == 5
\* Updates of one behaviour with /start and contact shares.
MaxContactEvents == 4
\* Updates of one behaviour with overlapping decrements.
MaxDecEvents == 4
\* Updates of one behaviour with cart buttons pressed during a checkout.
MaxRaceEvents == 5

\* Updates of one behaviour of the manual-order conversation.
MaxManualEvents == 5
\* Updates of one behaviour of the email verification, handled one at a time.
MaxOtpEvents == 5
\* Times the clock is advanced in one behaviour.
MaxTicks == 2
\* Clock resolution: ticks in one second (expires_at keeps fractions of a
\* second, SQLite's datetime() does not).
TicksPerSecond == 2

\* timedelta(minutes=10)
OtpTtlMinutes == 10
Ttl == OtpTtlMinutes * 60 * TicksPerSecond

\* ------------------------------------------------------------ the domain
\* Telegram ids of the identities (message.from_user.id).
TgIds == {11, 12}
\* Catalogue rows present in products (written only by /addproduct).
Products == {1, 2}
Price == [p \in Products |-> IF p = 1 THEN 500 ELSE 1200]
CartVerbs == {"add", "inc", "dec", "del"}
Tasks == 1..MaxTasks

\* ADMIN_IDS, in the order the notification loops visit them.
AdminSeq == <<91, 92>>
\* Brands of brands_kb and kinds of the other manual orders.
Brands == {"waka", "vozol"}
Kinds == {"liquids", "pods"}
\* message.contact.phone_number
Phones == {"+37120000001", "+37120000002"}

\* Message texts, as sequences of characters.
Dash == <<"-">>
PaddedDash == <<" ", "-", " ">>
MainSt == <<"M", "a", "i", "n", " ", "S", "t", " ", "1">>
\* The text email_verify_entry filters on, its Cyrillic letters written
\* "cyr:<latin name>", and the same with capitals.
VerifyText ==
  <<"cyr:v", "cyr:e", "cyr:r", "cyr:i", "cyr:f", "cyr:i", "cyr:k", "cyr:a",
    "cyr:ts", "cyr:i", "cyr:ya", " ", "e", "m", "a", "i", "l">>
VerifyTextCaps ==
  <<"cyr:V", "cyr:e", "cyr:r", "cyr:i", "cyr:f", "cyr:i", "cyr:k", "cyr:a",
    "cyr:ts", "cyr:i", "cyr:ya", " ", "E", "m", "a", "i", "l">>
Cola2 == <<"C", "o", "l", "a", " ", "x", "2">>
\* The default confirm_order reports when no details are stored.
NoDetails == <<"--">>
MailA == <<"a", "@", "B", ".", "c">>
Code1 == <<"1", "1", "1", "1", "1", "1">>
Code2 == <<"4", "8", "3", "9", "2", "0">>
PaddedCode1 == <<" ", "1", "1", "1", "1", "1", "1">>
ShortCode == <<"4", "8", "3", "9", "2">>
\* The codes gen_otp draws in this model (it draws any six digits).
OtpCodes == {Code1, Code2}

VARIABLES
  users,        \* table users: rows [id, tg_id, phone, is_verified, email]
  carts,        \* table carts: rows [id, user_id]
  cart_items,   \* table cart_items: rows [id, cart_id, product_id, qty]
  orders,       \* table orders: rows [id, user_id, amount, currency, status, address, note]
  order_items,  \* table order_items: rows [id, order_id, product_id, qty, price]
  email_otps,   \* table email_otps: rows [id, user_id, email, code, expires_at, used]
  now,          \* the clock (UTC), in ticks
  ticks,        \* number of times the clock has been advanced
  wlock,        \* the task holding SQLite's write lock (0: nobody)
  fsm_state,    \* FSMContext state of each identity
  fsm_data,     \* FSMContext data of each identity (a dict)
  tasks,        \* handler coroutines in progress, by task slot
  events,       \* number of updates delivered so far
  faults,       \* number of failures injected so far
  aborted,      \* history: number of handlers ended by an exception
  fault,        \* history: the handler the last failure hit, until the next update
  goc_ret,      \* history: cart ids get_or_create_cart has returned, by identity
  sent,         \* history: number of cart buttons delivered, by <<identity, verb, product>>
  verdicts,     \* history: every code submission with the lookup's outcome
  outbox,       \* history: every message sent to an admin, delivered or not
  cancelled     \* history: the steps the cancel button has cleared, by identity

vars == <<users, carts, cart_items, orders, order_items, email_otps, now,
          ticks, wlock, fsm_state, fsm_data, tasks, events, faults, aborted,
          fault, goc_ret, sent, verdicts, outbox,
          cancelled>>

cartTables == <<users, carts, cart_items>>
orderTables == <<orders, order_items>>
otpVars == <<email_otps, now, ticks, verdicts>>
fsm == <<fsm_state, fsm_data>>

\* ------------------------------------------------------------- SQL help
Null == "NULL"
NoRow == [id |-> 0, qty |-> 0]
\* Python's None and a value, for a field that holds a text or None.
None == <<>>
Some(x) == <<x>>

SetMax(S) == CHOOSE x \in S : \A y \in S : y <= x

\* INTEGER PRIMARY KEY without AUTOINCREMENT: the new rowid is the largest
\* rowid in the table plus one (1 in an empty table).
NextId(table) == IF table = {} THEN 1 ELSE SetMax({r.id : r \in table}) + 1

\* fetchone() of a SELECT without ORDER BY over a table without an index on
\* the filtered column: SQLite scans in rowid order, so the lowest rowid.
FirstRow(rows) == CHOOSE r \in rows : \A q \in rows : r.id <= q.id

\* fetchall() of such a SELECT: the rows in rowid order.
RECURSIVE InRowidOrder(_)
InRowidOrder(rows) ==
  IF rows = {} THEN <<>>
  ELSE <<FirstRow(rows)>> \o InRowidOrder(rows \ {FirstRow(rows)})

UserRows(tg) == {r \in users : r.tg_id = tg}
CartRows(user_id) == {r \in carts : r.user_id = user_id}
ItemRows(cart_id, pid) ==
  {r \in cart_items : r.cart_id = cart_id /\ r.product_id = pid}

\* INSERT OR IGNORE INTO users (tg_id, ...)
SqlInsertOrIgnoreUser(table, tg) ==
  IF \E u \in table : u.tg_id = tg
  THEN table
  ELSE table \cup {[id |-> NextId(table), tg_id |-> tg, phone |-> Null,
                    is_verified |-> 0, email |-> Null]}

\* The cart lines of identity i.
IdentityLines(i) ==
  {r \in cart_items :
     \E u \in UserRows(i) : \E c \in CartRows(u.id) : r.cart_id = c.id}

\* ------------------------------------------------------------ text help
Whitespace == {" ", "\t", "\n"}

RECURSIVE LStrip(_)
LStrip(s) == IF s # <<>> /\ Head(s) \in Whitespace THEN LStrip(Tail(s)) ELSE s

RECURSIVE RStrip(_)
RStrip(s) ==
  IF s # <<>> /\ s[Len(s)] \in Whitespace
  THEN RStrip(SubSeq(s, 1, Len(s) - 1)) ELSE s

\* str.strip()
Strip(s) == RStrip(LStrip(s))

LowerChar(c) ==
  CASE c = "cyr:V" -> "cyr:v"
    [] c = "E" -> "e"
    [] c = "B" -> "b"
    [] c = "M" -> "m"
    [] c = "S" -> "s"
    [] OTHER -> c

\* str.lower()
Lower(s) == [n \in DOMAIN s |-> LowerChar(s[n])]

Digits == {"0", "1", "2", "3", "4", "5", "6", "7", "8", "9"}

\* A format check that accepts shorter runs of digits.
IsSixDigits_AtMost(s) == Len(s) <= 6 /\ \A n \in DOMAIN s : s[n] \in Digits

\* re.fullmatch(r"\d{6}", code)
IsSixDigits(s) == Len(s) = 6 /\ \A n \in DOMAIN s : s[n] \in Digits

\* validate_email(text, check_deliverability=False) accepts local@domain
\* with a dotted domain and no whitespace (the library's finer rules are
\* not modelled) ...
IsEmail(s) ==
  /\ Cardinality({n \in DOMAIN s : s[n] = "@"}) = 1
  /\ \A n \in DOMAIN s : s[n] \notin Whitespace
  /\ LET at == CHOOSE n \in DOMAIN s : s[n] = "@" IN
       /\ at > 1
       /\ \E n \in (at + 2)..(Len(s) - 1) : s[n] = "."

\* ... and info.normalized lower-cases the domain.
NormalizedEmail(s) ==
  LET at == CHOOSE n \in DOMAIN s : s[n] = "@" IN
    [n \in DOMAIN s |-> IF n > at THEN LowerChar(s[n]) ELSE s[n]]

\* ---------------------------------------------------------------- tasks
NoFault == [h |-> "none"]

Idle ==
  [h |-> "idle", pc |-> "-", uid |-> 0, act |-> "-", pid |-> 0, ret |-> "-",
   user_id |-> 0, cart_id |-> 0, row |-> NoRow,
   items |-> <<>>, k |-> 0, data |-> <<>>, pre_orders |-> {}, order_id |-> 0,
   tx_orders |-> {}, tx_items |-> {}, tx_del |-> FALSE,
   email |-> <<>>, code |-> <<>>, expires |-> 0, otp_id |-> 0,
   pre_lines |-> {}, phone |-> "-"]

IsIdle(t) == tasks[t].h = "idle"
AllIdle == \A t \in Tasks : IsIdle(t)
At(t, pc) == tasks[t].h # "idle" /\ tasks[t].pc = pc

\* The dispatcher gives each update a task of its own (asyncio.create_task);
\* slots are interchangeable, the lowest free one is used.
FreeSlot(t) == IsIdle(t) /\ \A s \in Tasks : s < t => ~IsIdle(s)

\* dp = Dispatcher() and dp.start_polling(bot): polling handles every update
\* as its own task and keeps no per-identity lock, so an update is taken
\* whether or not another handler of the same identity is in progress.
\* `serial` restricts delivery to the runs in which no handler is in progress,
\* `limit` bounds the updates of one behaviour.
CanDeliver(t, serial, limit) ==
  /\ events < limit
  /\ FreeSlot(t)
  /\ serial => AllIdle

\* What every delivery does to the counters and the history.
Delivered ==
  /\ events' = events + 1
  /\ fault' = NoFault

\* An exception leaves the handler: the task ends, its connection closes
\* (an open transaction is rolled back, the write lock released).
Raise(t) ==
  /\ tasks' = [tasks EXCEPT ![t] = Idle]
  /\ wlock' = IF wlock = t THEN 0 ELSE wlock
  /\ aborted' = aborted + 1

\* ------------------------------------------------- get_or_create_cart
\* SELECT id FROM users WHERE tg_id=?
GocSelUser(t) ==
  /\ At(t, "goc_sel_user")
  /\ LET found == UserRows(tasks[t].uid) IN
       tasks' = [tasks EXCEPT ![t] =
         IF found = {}
         THEN [@ EXCEPT !.pc = "goc_ins_user"]
         ELSE [@ EXCEPT !.pc = "goc_sel_cart", !.user_id = FirstRow(found).id]]
  /\ UNCHANGED <<cartTables, orderTables, otpVars, wlock, fsm, events, faults, aborted, fault, goc_ret, sent, outbox, cancelled>>

\* INSERT INTO users (tg_id) VALUES (?); commit; SELECT id again.
\* users.tg_id is UNIQUE: a second insert raises IntegrityError, which ends
\* the handler (the connection closes, nothing is written).
GocInsUser(t) ==
  /\ At(t, "goc_ins_user")
  /\ wlock = 0
  /\ IF UserRows(tasks[t].uid) # {}
     THEN /\ Raise(t)
          /\ UNCHANGED users
     ELSE LET id == NextId(users) IN
          /\ users' = users \cup
               {[id |-> id, tg_id |-> tasks[t].uid, phone |-> Null,
                 is_verified |-> 0, email |-> Null]}
          /\ tasks' = [tasks EXCEPT ![t] =
               [@ EXCEPT !.pc = "goc_sel_cart", !.user_id = id]]
          /\ UNCHANGED <<wlock, aborted>>
  /\ UNCHANGED <<carts, cart_items, orderTables, otpVars, fsm, events, faults, fault, goc_ret, sent, outbox, cancelled>>

\* return c[0]: the caller continues at its own next suspension point.
GocReturn(task, cart_id) ==
  [task EXCEPT !.pc = task.ret, !.ret = "-", !.cart_id = cart_id]

\* A lookup that binds the Telegram id where users.id belongs.
CartLookup_ByTgId(task) == CartRows(task.uid)

\* The parameter of the carts lookup: user_id = u[0], the users row's id.
CartLookup(task) == CartRows(task.user_id)

\* SELECT id FROM carts WHERE user_id=?
GocSelCart(t) ==
  /\ At(t, "goc_sel_cart")
  /\ LET found == CartLookup(tasks[t]) IN
       IF found = {}
       THEN /\ tasks' = [tasks EXCEPT ![t] = [@ EXCEPT !.pc = "goc_ins_cart"]]
            /\ UNCHANGED goc_ret
       ELSE /\ tasks' = [tasks EXCEPT ![t] = GocReturn(@, FirstRow(found).id)]
            /\ goc_ret' = [goc_ret EXCEPT ![tasks[t].uid] =
                 @ \cup {FirstRow(found).id}]
  /\ UNCHANGED <<cartTables, orderTables, otpVars, wlock, fsm, events, faults, aborted, fault, sent, outbox, cancelled>>

\* INSERT INTO carts (user_id) VALUES (?); commit; SELECT id again.
\* carts has no UNIQUE(user_id): the insert always succeeds.
GocInsCart(t) ==
  /\ At(t, "goc_ins_cart")
  /\ wlock = 0
  /\ carts' = carts \cup {[id |-> NextId(carts), user_id |-> tasks[t].user_id]}
  /\ LET c == FirstRow({r \in carts' : r.user_id = tasks[t].user_id}) IN
       /\ tasks' = [tasks EXCEPT ![t] = GocReturn(@, c.id)]
       /\ goc_ret' = [goc_ret EXCEPT ![tasks[t].uid] = @ \cup {c.id}]
  /\ UNCHANGED <<users, cart_items, orderTables, otpVars, wlock, fsm, events, faults, aborted, fault, sent, outbox, cancelled>>

\* ------------------------------------------------------- cart_actions
\* callback data "<verb>:<pid>" with verb in add, inc, dec, del.
OnCartAction(t, i, verb, p, serial, limit) ==
  /\ CanDeliver(t, serial, limit)
  /\ Delivered
  /\ tasks' = [tasks EXCEPT ![t] =
       [Idle EXCEPT !.h = "cart_actions", !.uid = i, !.act = verb, !.pid = p,
                    !.pc = "goc_sel_user", !.ret = "ca_select"]]
  /\ sent' = [sent EXCEPT ![<<i, verb, p>>] = @ + 1]
  /\ UNCHANGED <<cartTables, orderTables, otpVars, wlock, fsm, faults, aborted, goc_ret, outbox, cancelled>>

\* SELECT id, qty FROM cart_items WHERE cart_id=? AND product_id=?
CaSelect(t) ==
  /\ At(t, "ca_select")
  /\ LET found == ItemRows(tasks[t].cart_id, tasks[t].pid) IN
       tasks' = [tasks EXCEPT ![t] =
         [@ EXCEPT !.pc = "ca_write",
                   !.row = IF found = {} THEN NoRow
                           ELSE [id |-> FirstRow(found).id,
                                 qty |-> FirstRow(found).qty]]]
  /\ UNCHANGED <<cartTables, orderTables, otpVars, wlock, fsm, events, faults, aborted, fault, goc_ret, sent, outbox, cancelled>>

\* UPDATE cart_items SET qty=qty+d WHERE id=?  (on the rows as they are now)
SqlBumpQty(table, id, d) ==
  {IF r.id = id THEN [r EXCEPT !.qty = @ + d] ELSE r : r \in table}

\* DELETE FROM cart_items WHERE id=?
SqlDeleteId(table, id) == {r \in table : r.id # id}

\* A decrement that deletes the line one step too late.
DecKeepsRow_OffByOne(row) == row.qty > 0

\* dec keeps the line only when the quantity read is above 1.
DecKeepsRow(row) == row.qty > 1

\* The statement cart_actions runs for (verb, row read before).
CartWrite(table, verb, row, cart_id, pid) ==
  CASE verb = "add" /\ row # NoRow -> SqlBumpQty(table, row.id, 1)
    [] verb = "add" /\ row = NoRow ->
         table \cup {[id |-> NextId(table), cart_id |-> cart_id,
                      product_id |-> pid, qty |-> 1]}
    [] verb = "inc" /\ row # NoRow -> SqlBumpQty(table, row.id, 1)
    [] verb = "dec" /\ row # NoRow /\ DecKeepsRow(row) ->
         SqlBumpQty(table, row.id, -1)
    [] verb = "dec" /\ row # NoRow /\ ~DecKeepsRow(row) ->
         SqlDeleteId(table, row.id)
    [] verb = "del" /\ row # NoRow -> SqlDeleteId(table, row.id)
    [] OTHER -> table

\* The write, UPDATE carts SET updated_at (a timestamp nothing reads) and the
\* commit; then `await cb_cart(call)`, which starts with get_or_create_cart.
CaWrite(t) ==
  /\ At(t, "ca_write")
  /\ wlock = 0
  /\ cart_items' = CartWrite(cart_items, tasks[t].act, tasks[t].row,
                             tasks[t].cart_id, tasks[t].pid)
  /\ tasks' = [tasks EXCEPT ![t] =
       [@ EXCEPT !.pc = "goc_sel_user", !.ret = "cb_show"]]
  /\ UNCHANGED <<users, carts, orderTables, otpVars, wlock, fsm, events, faults, aborted, fault, goc_ret, sent, outbox, cancelled>>

\* cb_cart after get_or_create_cart: SELECT the lines and render them.
CbShow(t) ==
  /\ At(t, "cb_show")
  /\ tasks' = [tasks EXCEPT ![t] = Idle]
  /\ UNCHANGED <<cartTables, orderTables, otpVars, wlock, fsm, events, faults, aborted, fault, goc_ret, sent, outbox, cancelled>>

\* ------------------------------------------------------- FSM context
\* state.update_data(key=value)
UpdateData(data, key, value) == (key :> value) @@ data

HasKey(data, key) == key \in DOMAIN data

\* Message handlers are tried in the order they are registered; the first
\* whose filter accepts the message takes it.  (The handlers registered
\* before these filter on commands, contacts and the catalogue button.)
Route(i, text) ==
  IF fsm_state[i] = "waiting_details" THEN "catch_details"
  ELSE IF Lower(text) = VerifyText THEN "email_verify_entry"
  ELSE IF fsm_state[i] = "waiting_email" THEN "email_input"
  ELSE IF fsm_state[i] = "waiting_email_code" THEN "email_code_check"
  ELSE IF fsm_state[i] = "waiting_address" THEN "checkout_address"
  ELSE IF fsm_state[i] = "waiting_note" THEN "checkout_note"
  ELSE "unhandled"

\* --------------------------------------------------------------- on_start
\* /start: ensure_user_registered first.
OnStart(t, i, serial, limit) ==
  /\ CanDeliver(t, serial, limit)
  /\ Delivered
  /\ tasks' = [tasks EXCEPT ![t] =
       [Idle EXCEPT !.h = "on_start", !.uid = i, !.pc = "os_insert"]]
  /\ UNCHANGED <<cartTables, orderTables, otpVars, wlock, fsm, faults, aborted,
                 goc_ret, sent, outbox, cancelled>>

\* ensure_user_registered: INSERT OR IGNORE INTO users (tg_id, ...); commit.
OsInsert(t) ==
  /\ At(t, "os_insert")
  /\ wlock = 0
  /\ users' = SqlInsertOrIgnoreUser(users, tasks[t].uid)
  /\ tasks' = [tasks EXCEPT ![t] = [@ EXCEPT !.pc = "os_select"]]
  /\ UNCHANGED <<carts, cart_items, orderTables, otpVars, wlock, fsm, events,
                 faults, aborted, fault, goc_ret, sent, outbox, cancelled>>

\* SELECT is_verified, phone FROM users WHERE tg_id=?, then the greeting.
OsSelect(t) ==
  /\ At(t, "os_select")
  /\ tasks' = [tasks EXCEPT ![t] = Idle]
  /\ UNCHANGED <<cartTables, orderTables, otpVars, wlock, fsm, events, faults,
                 aborted, fault, goc_ret, sent, outbox, cancelled>>

\* ------------------------------------------------------------- on_contact
\* F.contact: phone = message.contact.phone_number
OnContact(t, i, phone, serial, limit) ==
  /\ CanDeliver(t, serial, limit)
  /\ Delivered
  /\ tasks' = [tasks EXCEPT ![t] =
       [Idle EXCEPT !.h = "on_contact", !.uid = i, !.phone = phone,
                    !.pc = "oc_write"]]
  /\ UNCHANGED <<cartTables, orderTables, otpVars, wlock, fsm, faults, aborted,
                 goc_ret, sent, outbox, cancelled>>

\* UPDATE users SET phone=?, is_verified=1 WHERE tg_id=?
SqlSetPhone(table, tg, phone) ==
  {IF u.tg_id = tg THEN [u EXCEPT !.phone = phone, !.is_verified = 1] ELSE u :
     u \in table}

\* The update and its commit, then the two answers.
OcWrite(t) ==
  /\ At(t, "oc_write")
  /\ wlock = 0
  /\ users' = SqlSetPhone(users, tasks[t].uid, tasks[t].phone)
  /\ tasks' = [tasks EXCEPT ![t] = Idle]
  /\ UNCHANGED <<carts, cart_items, orderTables, otpVars, wlock, fsm, events,
                 faults, aborted, fault, goc_ret, sent, outbox, cancelled>>

\* ---------------------------------------------------------- manual orders
\* start_brand_order, callback data "order:brand:<brand>":
\* state.update_data(kind="brand", brand=brand), then edit_text.
OnBrandOrder(t, i, brand, serial, limit) ==
  /\ CanDeliver(t, serial, limit)
  /\ Delivered
  /\ fsm_data' = [fsm_data EXCEPT ![i] =
       UpdateData(UpdateData(@, "kind", "brand"), "brand", brand)]
  /\ tasks' = [tasks EXCEPT ![t] =
       [Idle EXCEPT !.h = "start_brand_order", !.uid = i, !.pc = "mo_set"]]
  /\ UNCHANGED <<cartTables, orderTables, otpVars, wlock, fsm_state, faults,
                 aborted, goc_ret, sent, outbox, cancelled>>

\* liquids_order and pods_order, callback data "order:liquids", "order:pods":
\* state.update_data(kind=<kind>), then edit_text.
OnKindOrder(t, i, kind, serial, limit) ==
  /\ CanDeliver(t, serial, limit)
  /\ Delivered
  /\ fsm_data' = [fsm_data EXCEPT ![i] = UpdateData(@, "kind", kind)]
  /\ tasks' = [tasks EXCEPT ![t] =
       [Idle EXCEPT !.h = IF kind = "liquids" THEN "liquids_order"
                          ELSE "pods_order",
                    !.uid = i, !.pc = "mo_set"]]
  /\ UNCHANGED <<cartTables, orderTables, otpVars, wlock, fsm_state, faults,
                 aborted, goc_ret, sent, outbox, cancelled>>

\* state.set_state(ManualOrderFSM.waiting_details)
MoSet(t) ==
  /\ At(t, "mo_set")
  /\ fsm_state' = [fsm_state EXCEPT ![tasks[t].uid] = "waiting_details"]
  /\ tasks' = [tasks EXCEPT ![t] = Idle]
  /\ UNCHANGED <<cartTables, orderTables, otpVars, wlock, fsm_data, events,
                 faults, aborted, fault, goc_ret, sent, outbox, cancelled>>

\* catch_details: state.update_data(details=message.text.strip()), then
\* message.answer.
OnDetailsText(t, i, text, serial, limit) ==
  /\ CanDeliver(t, serial, limit)
  /\ Route(i, text) = "catch_details"
  /\ Delivered
  /\ fsm_data' = [fsm_data EXCEPT ![i] = UpdateData(@, "details", Strip(text))]
  /\ tasks' = [tasks EXCEPT ![t] =
       [Idle EXCEPT !.h = "catch_details", !.uid = i, !.pc = "cd_set"]]
  /\ UNCHANGED <<cartTables, orderTables, otpVars, wlock, fsm_state, faults,
                 aborted, goc_ret, sent, outbox, cancelled>>

\* state.set_state(ManualOrderFSM.waiting_confirm)
CdSet(t) ==
  /\ At(t, "cd_set")
  /\ fsm_state' = [fsm_state EXCEPT ![tasks[t].uid] = "waiting_confirm"]
  /\ tasks' = [tasks EXCEPT ![t] = Idle]
  /\ UNCHANGED <<cartTables, orderTables, otpVars, wlock, fsm_data, events,
                 faults, aborted, fault, goc_ret, sent, outbox, cancelled>>

\* str.capitalize() of a brand of brands_kb.
Capitalize(brand) ==
  CASE brand = "waka" -> "Waka"
    [] brand = "vozol" -> "Vozol"
    [] OTHER -> brand

\* dict.get(key, default)
Get(data, key, default) == IF HasKey(data, key) THEN data[key] ELSE default

\* title = 'Brand: ' + brand.capitalize() if brand else kind
ManualTitle(data) ==
  IF HasKey(data, "brand")
  THEN <<"brand", Capitalize(data["brand"])>>
  ELSE <<"kind", Get(data, "kind", "none")>>

\* One bot.send_message to an admin, as the history keeps it.
Notice(admin, uid, about, order_id, title, details, ok) ==
  [n |-> Cardinality(outbox) + 1, admin |-> admin, uid |-> uid,
   about |-> about, order_id |-> order_id, title |-> title,
   details |-> details, ok |-> ok]

\* A dispatcher that hands the confirm button to confirm_order in any step.
ConfirmRoute_AnyStep(i) == "confirm_order"

\* Callback data "confirm_order": the only callback handler whose filters
\* accept it is confirm_order, and only in ManualOrderFSM.waiting_confirm.
ConfirmRoute(i) ==
  IF fsm_state[i] = "waiting_confirm" THEN "confirm_order" ELSE "unhandled"

\* confirm_order, callback data "confirm_order" in waiting_confirm:
\* data = state.get_data(), then edit_text.
OnConfirm(t, i, serial, limit) ==
  /\ CanDeliver(t, serial, limit)
  /\ ConfirmRoute(i) = "confirm_order"
  /\ Delivered
  /\ tasks' = [tasks EXCEPT ![t] =
       [Idle EXCEPT !.h = "confirm_order", !.uid = i, !.data = fsm_data[i],
                    !.k = 1,
                    !.pc = IF AdminSeq = <<>> THEN "co_clear" ELSE "co_notify"]]
  /\ UNCHANGED <<cartTables, orderTables, otpVars, wlock, fsm, faults, aborted,
                 goc_ret, sent, outbox, cancelled>>

\* Callback data "confirm_order" outside waiting_confirm: no handler's
\* filters accept the update, and the dispatcher drops it.
OnConfirmUnhandled(t, i, serial, limit) ==
  /\ CanDeliver(t, serial, limit)
  /\ ConfirmRoute(i) = "unhandled"
  /\ Delivered
  /\ tasks' = [tasks EXCEPT ![t] =
       [Idle EXCEPT !.h = "unhandled", !.uid = i, !.pc = "un_done"]]
  /\ UNCHANGED <<cartTables, orderTables, otpVars, wlock, fsm, faults, aborted,
                 goc_ret, sent, outbox, cancelled>>

\* The task of a dropped update ends.
Unhandled(t) ==
  /\ At(t, "un_done")
  /\ tasks' = [tasks EXCEPT ![t] = Idle]
  /\ UNCHANGED <<cartTables, orderTables, otpVars, wlock, fsm, events, faults,
                 aborted, fault, goc_ret, sent, outbox, cancelled>>

\* for admin_id in ADMIN_IDS: try: bot.send_message(...) except: pass
CoNotify(t, ok) ==
  /\ At(t, "co_notify")
  /\ outbox' = outbox \cup
       {Notice(AdminSeq[tasks[t].k], tasks[t].uid, "manual", 0,
               ManualTitle(tasks[t].data),
               Get(tasks[t].data, "details", NoDetails), ok)}
  /\ tasks' = [tasks EXCEPT ![t] =
       [@ EXCEPT !.k = @ + 1,
                 !.pc = IF tasks[t].k = Len(AdminSeq) THEN "co_clear"
                        ELSE "co_notify"]]
  /\ UNCHANGED <<cartTables, orderTables, otpVars, wlock, fsm, events, faults,
                 aborted, fault, goc_ret, sent, cancelled>>

\* state.clear(), then edit_text.
CoClear(t) ==
  /\ At(t, "co_clear")
  /\ fsm_state' = [fsm_state EXCEPT ![tasks[t].uid] = "none"]
  /\ fsm_data' = [fsm_data EXCEPT ![tasks[t].uid] = <<>>]
  /\ tasks' = [tasks EXCEPT ![t] = Idle]
  /\ UNCHANGED <<cartTables, orderTables, otpVars, wlock, events, faults,
                 aborted, fault, goc_ret, sent, outbox, cancelled>>

\* ------------------------------------------------- cancel_order_any_state
\* callback data "cancel_order_step", in any state: call.answer() first.
OnCancel(t, i, serial, limit) ==
  /\ CanDeliver(t, serial, limit)
  /\ Delivered
  /\ tasks' = [tasks EXCEPT ![t] =
       [Idle EXCEPT !.h = "cancel_order_any_state", !.uid = i, !.pc = "cx_data"]]
  /\ UNCHANGED <<cartTables, orderTables, otpVars, wlock, fsm, faults, aborted,
                 goc_ret, sent, outbox, cancelled>>

\* data = state.get_data(); the menu of data.get("kind") is shown with
\* edit_text, or with message.answer when that fails.
CxData(t) ==
  /\ At(t, "cx_data")
  /\ tasks' = [tasks EXCEPT ![t] =
       [@ EXCEPT !.data = fsm_data[tasks[t].uid], !.pc = "cx_clear"]]
  /\ UNCHANGED <<cartTables, orderTables, otpVars, wlock, fsm, events, faults,
                 aborted, fault, goc_ret, sent, outbox, cancelled>>

\* A cancel that resets the step and keeps the data.
CxClear_StateOnly(t) ==
  /\ At(t, "cx_clear")
  /\ fsm_state' = [fsm_state EXCEPT ![tasks[t].uid] = "none"]
  /\ cancelled' = cancelled \cup {<<tasks[t].uid, fsm_state[tasks[t].uid]>>}
  /\ tasks' = [tasks EXCEPT ![t] = Idle]
  /\ UNCHANGED <<cartTables, orderTables, otpVars, wlock, fsm_data, events,
                 faults, aborted, fault, goc_ret, sent, outbox>>

\* state.clear()
CxClear(t) ==
  /\ At(t, "cx_clear")
  /\ fsm_state' = [fsm_state EXCEPT ![tasks[t].uid] = "none"]
  /\ fsm_data' = [fsm_data EXCEPT ![tasks[t].uid] = <<>>]
  /\ cancelled' = cancelled \cup {<<tasks[t].uid, fsm_state[tasks[t].uid]>>}
  /\ tasks' = [tasks EXCEPT ![t] = Idle]
  /\ UNCHANGED <<cartTables, orderTables, otpVars, wlock, events, faults,
                 aborted, fault, goc_ret, sent, outbox>>

\* ------------------------------------------------------ checkout_start
\* callback data "checkout": edit_text (an await on the Bot API) comes first.
OnCheckout(t, i, serial, limit) ==
  /\ CanDeliver(t, serial, limit)
  /\ Delivered
  /\ tasks' = [tasks EXCEPT ![t] =
       [Idle EXCEPT !.h = "checkout_start", !.uid = i, !.pc = "cs_set"]]
  /\ UNCHANGED <<cartTables, orderTables, otpVars, wlock, fsm, faults, aborted, goc_ret, sent, outbox, cancelled>>

\* state.set_state(CheckoutFSM.waiting_address), whatever the cart holds.
CsSet(t) ==
  /\ At(t, "cs_set")
  /\ fsm_state' = [fsm_state EXCEPT ![tasks[t].uid] = "waiting_address"]
  /\ tasks' = [tasks EXCEPT ![t] = Idle]
  /\ UNCHANGED <<cartTables, orderTables, otpVars, wlock, fsm_data, events, faults,
                 aborted, fault, goc_ret, sent, outbox, cancelled>>

\* ---------------------------------------------------- checkout_address
\* An address handler that moves on without keeping the text.
OnAddressText_NoStore(t, i, text, serial, limit) ==
  /\ CanDeliver(t, serial, limit)
  /\ Route(i, text) = "checkout_address"
  /\ Delivered
  /\ tasks' = [tasks EXCEPT ![t] =
       [Idle EXCEPT !.h = "checkout_address", !.uid = i, !.pc = "addr_set"]]
  /\ UNCHANGED <<cartTables, orderTables, otpVars, wlock, fsm, faults, aborted,
                 goc_ret, sent, outbox, cancelled>>

\* state.update_data(address=message.text.strip()), then message.answer.
OnAddressText(t, i, text, serial, limit) ==
  /\ CanDeliver(t, serial, limit)
  /\ Route(i, text) = "checkout_address"
  /\ Delivered
  /\ fsm_data' = [fsm_data EXCEPT ![i] = UpdateData(@, "address", Strip(text))]
  /\ tasks' = [tasks EXCEPT ![t] =
       [Idle EXCEPT !.h = "checkout_address", !.uid = i, !.pc = "addr_set"]]
  /\ UNCHANGED <<cartTables, orderTables, otpVars, wlock, fsm_state, faults, aborted,
                 goc_ret, sent, outbox, cancelled>>

\* state.set_state(CheckoutFSM.waiting_note)
AddrSet(t) ==
  /\ At(t, "addr_set")
  /\ fsm_state' = [fsm_state EXCEPT ![tasks[t].uid] = "waiting_note"]
  /\ tasks' = [tasks EXCEPT ![t] = Idle]
  /\ UNCHANGED <<cartTables, orderTables, otpVars, wlock, fsm_data, events, faults,
                 aborted, fault, goc_ret, sent, outbox, cancelled>>

\* ------------------------------------------------------- checkout_note
\* note = None if message.text.strip() == "-" else message.text.strip()
NoteOf(text) == IF Strip(text) = Dash THEN None ELSE Some(Strip(text))

\* state.update_data(note=note), then get_or_create_cart.  pre_lines
\* (history) keeps the cart lines the identity has as the note arrives.
OnNoteText(t, i, text, serial, limit) ==
  /\ CanDeliver(t, serial, limit)
  /\ Route(i, text) = "checkout_note"
  /\ Delivered
  /\ fsm_data' = [fsm_data EXCEPT ![i] = UpdateData(@, "note", NoteOf(text))]
  /\ tasks' = [tasks EXCEPT ![t] =
       [Idle EXCEPT !.h = "checkout_note", !.uid = i,
                    !.pc = "goc_sel_user", !.ret = "cn_items",
                    !.pre_lines = IdentityLines(i)]]
  /\ UNCHANGED <<cartTables, orderTables, otpVars, wlock, fsm_state, faults, aborted,
                 goc_ret, sent, outbox, cancelled>>

\* SELECT p.id, p.title, p.price, p.currency, ci.qty FROM cart_items ci
\* JOIN products p ON p.id=ci.product_id WHERE ci.cart_id=?
CartSnapshot(cart_id) ==
  LET rows == InRowidOrder({r \in cart_items :
                 r.cart_id = cart_id /\ r.product_id \in Products})
  IN [n \in 1..Len(rows) |->
        [pid |-> rows[n].product_id, price |-> Price[rows[n].product_id],
         qty |-> rows[n].qty]]

\* A total that forgets the quantities.
RECURSIVE Total_PricesOnly(_)
Total_PricesOnly(items) ==
  IF items = <<>> THEN 0
  ELSE Head(items).price + Total_PricesOnly(Tail(items))

\* total = sum(price * qty for ... in items)
RECURSIVE Total(_)
Total(items) ==
  IF items = <<>> THEN 0
  ELSE Head(items).price * Head(items).qty + Total(Tail(items))

CnItems(t) ==
  /\ At(t, "cn_items")
  /\ LET items == CartSnapshot(tasks[t].cart_id) IN
       tasks' = [tasks EXCEPT ![t] =
         [@ EXCEPT !.items = items,
                   !.pc = IF items = <<>> THEN "cn_empty" ELSE "cn_data"]]
  /\ UNCHANGED <<cartTables, orderTables, otpVars, wlock, fsm, events, faults, aborted,
                 fault, goc_ret, sent, outbox, cancelled>>

\* if not items: state.clear(); answer that the cart is empty; return
CnEmpty(t) ==
  /\ At(t, "cn_empty")
  /\ fsm_state' = [fsm_state EXCEPT ![tasks[t].uid] = "none"]
  /\ fsm_data' = [fsm_data EXCEPT ![tasks[t].uid] = <<>>]
  /\ tasks' = [tasks EXCEPT ![t] = Idle]
  /\ UNCHANGED <<cartTables, orderTables, otpVars, wlock, events, faults, aborted,
                 fault, goc_ret, sent, outbox, cancelled>>

\* A checkout_note that clears the FSM context before it creates the order.
CnData_ClearsFirst(t) ==
  /\ At(t, "cn_data")
  /\ tasks' = [tasks EXCEPT ![t] =
       [@ EXCEPT !.data = fsm_data[tasks[t].uid],
                 !.pre_orders = {o.id : o \in orders},
                 !.pc = "cn_ins_order"]]
  /\ fsm_state' = [fsm_state EXCEPT ![tasks[t].uid] = "none"]
  /\ fsm_data' = [fsm_data EXCEPT ![tasks[t].uid] = <<>>]
  /\ UNCHANGED <<cartTables, orderTables, otpVars, wlock, events, faults, aborted,
                 fault, goc_ret, sent, outbox, cancelled>>

\* data = await state.get_data(), after the snapshot's connection closed.
\* pre_orders (history) keeps the order ids visible when creation starts.
CnData(t) ==
  /\ At(t, "cn_data")
  /\ tasks' = [tasks EXCEPT ![t] =
       [@ EXCEPT !.data = fsm_data[tasks[t].uid],
                 !.pre_orders = {o.id : o \in orders},
                 !.pc = "cn_ins_order"]]
  /\ UNCHANGED <<cartTables, orderTables, otpVars, wlock, fsm, events, faults, aborted,
                 fault, goc_ret, sent, outbox, cancelled>>

\* SELECT id FROM users WHERE tg_id=?; INSERT INTO orders (...) VALUES
\* (user_id, total, currency, 'pending', data['address'], data['note']).
\* A key missing from data raises KeyError.
CnInsOrder(t) ==
  /\ At(t, "cn_ins_order")
  /\ wlock = 0
  /\ IF ~HasKey(tasks[t].data, "address") \/ ~HasKey(tasks[t].data, "note")
     THEN Raise(t)
     ELSE /\ tasks' = [tasks EXCEPT ![t] =
               [@ EXCEPT !.pc = "cn_commit_order",
                         !.tx_orders =
                           {[id |-> NextId(orders),
                             user_id |-> FirstRow(UserRows(tasks[t].uid)).id,
                             amount |-> Total(tasks[t].items),
                             currency |-> "EUR",
                             status |-> "pending",
                             address |-> tasks[t].data["address"],
                             note |-> tasks[t].data["note"]]}]]
          /\ wlock' = t
          /\ UNCHANGED aborted
  /\ UNCHANGED <<cartTables, orderTables, otpVars, fsm, events, faults, fault, goc_ret, sent, outbox, cancelled>>

\* await conn.commit() right after the orders insert (bot.py:739), then
\* SELECT last_insert_rowid().
CnCommitOrder(t) ==
  /\ At(t, "cn_commit_order")
  /\ orders' = orders \cup tasks[t].tx_orders
  /\ wlock' = 0
  /\ tasks' = [tasks EXCEPT ![t] =
       [@ EXCEPT !.pc = "cn_ins_item", !.k = 1, !.tx_orders = {},
                 !.order_id = SetMax({o.id : o \in tasks[t].tx_orders})]]
  /\ UNCHANGED <<cartTables, order_items, otpVars, fsm, events, faults, aborted, fault,
                 goc_ret, sent, outbox, cancelled>>

\* for ... in items: INSERT INTO order_items (order_id, product_id, qty, price)
CnInsItem(t) ==
  /\ At(t, "cn_ins_item")
  /\ wlock \in {0, t}
  /\ LET it == tasks[t].items[tasks[t].k] IN
       tasks' = [tasks EXCEPT ![t] =
         [@ EXCEPT !.tx_items = @ \cup
                      {[id |-> NextId(order_items \cup tasks[t].tx_items),
                        order_id |-> tasks[t].order_id, product_id |-> it.pid,
                        qty |-> it.qty, price |-> it.price]},
                   !.k = @ + 1,
                   !.pc = IF tasks[t].k = Len(tasks[t].items)
                          THEN "cn_delete" ELSE "cn_ins_item"]]
  /\ wlock' = t
  /\ UNCHANGED <<cartTables, orderTables, otpVars, fsm, events, faults, aborted, fault,
                 goc_ret, sent, outbox, cancelled>>

\* DELETE FROM cart_items WHERE cart_id=?  (in the open transaction)
CnDelete(t) ==
  /\ At(t, "cn_delete")
  /\ wlock \in {0, t}
  /\ tasks' = [tasks EXCEPT ![t] = [@ EXCEPT !.tx_del = TRUE, !.pc = "cn_commit"]]
  /\ wlock' = t
  /\ UNCHANGED <<cartTables, orderTables, otpVars, fsm, events, faults, aborted, fault,
                 goc_ret, sent, outbox, cancelled>>

\* await conn.commit() (bot.py:751): the order lines and the cleared cart
\* become visible together.
CnCommit(t) ==
  /\ At(t, "cn_commit")
  /\ order_items' = order_items \cup tasks[t].tx_items
  /\ cart_items' = IF tasks[t].tx_del
                   THEN {r \in cart_items : r.cart_id # tasks[t].cart_id}
                   ELSE cart_items
  /\ wlock' = 0
  /\ tasks' = [tasks EXCEPT ![t] =
       [@ EXCEPT !.pc = "cn_clear", !.tx_items = {}, !.tx_del = FALSE]]
  /\ UNCHANGED <<users, carts, orders, otpVars, fsm, events, faults, aborted, fault,
                 goc_ret, sent, outbox, cancelled>>

\* await state.clear()
CnClear(t) ==
  /\ At(t, "cn_clear")
  /\ fsm_state' = [fsm_state EXCEPT ![tasks[t].uid] = "none"]
  /\ fsm_data' = [fsm_data EXCEPT ![tasks[t].uid] = <<>>]
  /\ tasks' = [tasks EXCEPT ![t] = [@ EXCEPT !.pc = "cn_report"]]
  /\ UNCHANGED <<cartTables, orderTables, otpVars, wlock, events, faults, aborted,
                 fault, goc_ret, sent, outbox, cancelled>>

\* message.answer(text) to the buyer; the admin loop follows.
CnReport(t) ==
  /\ At(t, "cn_report")
  /\ tasks' = [tasks EXCEPT ![t] =
       IF AdminSeq = <<>> THEN Idle ELSE [@ EXCEPT !.pc = "cn_notify", !.k = 1]]
  /\ UNCHANGED <<cartTables, orderTables, otpVars, wlock, fsm, events, faults, aborted,
                 fault, goc_ret, sent, outbox, cancelled>>

\* An admin loop that a failed send ends.
CnNotify_StopOnFailure(t, ok) ==
  /\ At(t, "cn_notify")
  /\ outbox' = outbox \cup
       {Notice(AdminSeq[tasks[t].k], tasks[t].uid, "cart", tasks[t].order_id,
               <<"order", "cart">>, tasks[t].data["address"], ok)}
  /\ tasks' = [tasks EXCEPT ![t] =
       IF tasks[t].k = Len(AdminSeq) \/ ~ok THEN Idle ELSE [@ EXCEPT !.k = @ + 1]]
  /\ UNCHANGED <<cartTables, orderTables, otpVars, wlock, fsm, events, faults,
                 aborted, fault, goc_ret, sent, cancelled>>

\* for admin_id in ADMIN_IDS: try: bot.send_message(...) except: pass
CnNotify(t, ok) ==
  /\ At(t, "cn_notify")
  /\ outbox' = outbox \cup
       {Notice(AdminSeq[tasks[t].k], tasks[t].uid, "cart", tasks[t].order_id,
               <<"order", "cart">>, tasks[t].data["address"], ok)}
  /\ tasks' = [tasks EXCEPT ![t] =
       IF tasks[t].k = Len(AdminSeq) THEN Idle ELSE [@ EXCEPT !.k = @ + 1]]
  /\ UNCHANGED <<cartTables, orderTables, otpVars, wlock, fsm, events, faults,
                 aborted, fault, goc_ret, sent, cancelled>>

\* -------------------------------------------------------------- the clock
\* Time passes, between handlers and between the steps of one.
Advances == {1, Ttl - 1, Ttl}

Tick(d) ==
  /\ ticks < MaxTicks
  /\ ticks' = ticks + 1
  /\ now' = now + d
  /\ UNCHANGED <<cartTables, orderTables, email_otps, verdicts, wlock, fsm,
                 tasks, events, faults, aborted, fault, goc_ret, sent, outbox, cancelled>>

\* SQLite's datetime(x): x to whole seconds.
SqlDatetime(x) == x - (x % TicksPerSecond)

\* --------------------------------------------------- email_verify_entry
\* F.text.lower() == <the verification text>: message.answer comes first.
OnVerifyText(t, i, text, serial, limit) ==
  /\ CanDeliver(t, serial, limit)
  /\ Route(i, text) = "email_verify_entry"
  /\ Delivered
  /\ tasks' = [tasks EXCEPT ![t] =
       [Idle EXCEPT !.h = "email_verify_entry", !.uid = i, !.pc = "ev_set"]]
  /\ UNCHANGED <<cartTables, orderTables, otpVars, wlock, fsm, faults, aborted,
                 goc_ret, sent, outbox, cancelled>>

\* state.set_state(CheckoutFSM.waiting_email)
EvSet(t) ==
  /\ At(t, "ev_set")
  /\ fsm_state' = [fsm_state EXCEPT ![tasks[t].uid] = "waiting_email"]
  /\ tasks' = [tasks EXCEPT ![t] = Idle]
  /\ UNCHANGED <<cartTables, orderTables, otpVars, wlock, fsm_data, events,
                 faults, aborted, fault, goc_ret, sent, outbox, cancelled>>

\* ------------------------------------------------------------ email_input
\* An invalid address is answered and nothing else happens.  Otherwise
\* code = gen_otp() and expires = utcnow() + 10 minutes are taken before the
\* store is opened.
OnEmailText(t, i, text, code, serial, limit) ==
  /\ CanDeliver(t, serial, limit)
  /\ Route(i, text) = "email_input"
  /\ Delivered
  /\ tasks' = [tasks EXCEPT ![t] =
       IF IsEmail(text)
       THEN [Idle EXCEPT !.h = "email_input", !.uid = i, !.pc = "ei_insert",
                         !.email = NormalizedEmail(text), !.code = code,
                         !.expires = now + Ttl]
       ELSE Idle]
  /\ UNCHANGED <<cartTables, orderTables, otpVars, wlock, fsm, faults, aborted,
                 goc_ret, sent, outbox, cancelled>>

\* INSERT INTO email_otps (user_id, email, code, expires_at)
\*   SELECT id, ?, ?, ? FROM users WHERE tg_id=?
SqlInsertOtp(table, userTable, tg, email, code, expires) ==
  LET ids == {u.id : u \in {u \in userTable : u.tg_id = tg}} IN
    IF ids = {}
    THEN table
    ELSE table \cup {[id |-> NextId(table), user_id |-> CHOOSE x \in ids : TRUE,
                      email |-> email, code |-> code, expires_at |-> expires,
                      used |-> 0]}

\* The two inserts and the commit of email_input.
EiInsert(t) ==
  /\ At(t, "ei_insert")
  /\ wlock = 0
  /\ users' = SqlInsertOrIgnoreUser(users, tasks[t].uid)
  /\ email_otps' = SqlInsertOtp(email_otps, users', tasks[t].uid,
                                tasks[t].email, tasks[t].code, tasks[t].expires)
  /\ tasks' = [tasks EXCEPT ![t] = [@ EXCEPT !.pc = "ei_data"]]
  /\ UNCHANGED <<carts, cart_items, orderTables, now, ticks, verdicts, wlock,
                 fsm, events, faults, aborted, fault, goc_ret, sent, outbox, cancelled>>

\* send_email_code (a stub that prints), state.update_data(email=email),
\* then message.answer.
EiData(t) ==
  /\ At(t, "ei_data")
  /\ fsm_data' = [fsm_data EXCEPT ![tasks[t].uid] =
       UpdateData(@, "email", tasks[t].email)]
  /\ tasks' = [tasks EXCEPT ![t] = [@ EXCEPT !.pc = "ei_set"]]
  /\ UNCHANGED <<cartTables, orderTables, otpVars, wlock, fsm_state, events,
                 faults, aborted, fault, goc_ret, sent, outbox, cancelled>>

\* state.set_state(CheckoutFSM.waiting_email_code)
EiSet(t) ==
  /\ At(t, "ei_set")
  /\ fsm_state' = [fsm_state EXCEPT ![tasks[t].uid] = "waiting_email_code"]
  /\ tasks' = [tasks EXCEPT ![t] = Idle]
  /\ UNCHANGED <<cartTables, orderTables, otpVars, wlock, fsm_data, events,
                 faults, aborted, fault, goc_ret, sent, outbox, cancelled>>

\* ------------------------------------------------------- email_code_check
\* One entry of the history of submissions: what was submitted, when the
\* store was asked, which row it returned (0: none) and the answer.
Verdict(uid, code, otp, res) ==
  [n |-> Cardinality(verdicts) + 1, uid |-> uid, code |-> code, at |-> now,
   otp |-> otp, res |-> res,
   maxid |-> SetMax({0} \cup {e.id : e \in email_otps})]

\* code = message.text.strip(); anything but six digits is answered and
\* the handler returns.
OnCodeText(t, i, text, serial, limit) ==
  /\ CanDeliver(t, serial, limit)
  /\ Route(i, text) = "email_code_check"
  /\ Delivered
  /\ IF IsSixDigits(Strip(text))
     THEN /\ tasks' = [tasks EXCEPT ![t] =
               [Idle EXCEPT !.h = "email_code_check", !.uid = i,
                            !.pc = "ec_lookup", !.code = Strip(text)]]
          /\ UNCHANGED verdicts
     ELSE /\ verdicts' = verdicts \cup {Verdict(i, Strip(text), 0, "malformed")}
          /\ UNCHANGED tasks
  /\ UNCHANGED <<cartTables, orderTables, email_otps, now, ticks, wlock, fsm,
                 faults, aborted, goc_ret, sent, outbox, cancelled>>

\* e.used=0
IsUnused(e) == e.used = 0

Unexpired_AtTheSecond(e, at) == SqlDatetime(e.expires_at) >= SqlDatetime(at)

\* datetime(e.expires_at) > datetime('now')
Unexpired(e, at) == SqlDatetime(e.expires_at) > SqlDatetime(at)

\* A lookup that does not ask whose challenge it is.
OtpMatches_AnyOwner(tg, code, at) ==
  {e \in email_otps : e.code = code /\ IsUnused(e) /\ Unexpired(e, at)}

\* FROM email_otps e JOIN users u ON u.id=e.user_id
\* WHERE u.tg_id=? AND e.code=? AND e.used=0 AND <unexpired>
OtpMatches(tg, code, at) ==
  {e \in email_otps :
     /\ \E u \in users : u.id = e.user_id /\ u.tg_id = tg
     /\ e.code = code
     /\ IsUnused(e)
     /\ Unexpired(e, at)}

\* ... ORDER BY e.id DESC LIMIT 1; no row is answered as wrong or expired.
EcLookup(t) ==
  /\ At(t, "ec_lookup")
  /\ LET found == OtpMatches(tasks[t].uid, tasks[t].code, now) IN
       IF found = {}
       THEN /\ tasks' = [tasks EXCEPT ![t] = Idle]
            /\ verdicts' = verdicts \cup
                 {Verdict(tasks[t].uid, tasks[t].code, 0, "invalid")}
       ELSE LET otp_id == SetMax({e.id : e \in found}) IN
            /\ tasks' = [tasks EXCEPT ![t] =
                 [@ EXCEPT !.pc = "ec_write", !.otp_id = otp_id]]
            /\ verdicts' = verdicts \cup
                 {Verdict(tasks[t].uid, tasks[t].code, otp_id, "ok")}
  /\ UNCHANGED <<cartTables, orderTables, email_otps, now, ticks, wlock, fsm,
                 events, faults, aborted, fault, goc_ret, sent, outbox, cancelled>>

\* UPDATE email_otps SET used=1 WHERE id=?;
\* UPDATE users SET is_verified=1 WHERE tg_id=?; commit.
EcWrite(t) ==
  /\ At(t, "ec_write")
  /\ wlock = 0
  /\ email_otps' = {IF e.id = tasks[t].otp_id THEN [e EXCEPT !.used = 1] ELSE e :
                      e \in email_otps}
  /\ users' = {IF u.tg_id = tasks[t].uid THEN [u EXCEPT !.is_verified = 1] ELSE u :
                 u \in users}
  /\ tasks' = [tasks EXCEPT ![t] = [@ EXCEPT !.pc = "ec_clear"]]
  /\ UNCHANGED <<carts, cart_items, orderTables, now, ticks, verdicts, wlock,
                 fsm, events, faults, aborted, fault, goc_ret, sent, outbox, cancelled>>

\* state.clear(), then the two answers.
EcClear(t) ==
  /\ At(t, "ec_clear")
  /\ fsm_state' = [fsm_state EXCEPT ![tasks[t].uid] = "none"]
  /\ fsm_data' = [fsm_data EXCEPT ![tasks[t].uid] = <<>>]
  /\ tasks' = [tasks EXCEPT ![t] = Idle]
  /\ UNCHANGED <<cartTables, orderTables, otpVars, wlock, events, faults,
                 aborted, fault, goc_ret, sent, outbox, cancelled>>

\* --------------------------------------------------- failure injection
\* The sends to the admins are inside try/except Exception: pass; their
\* failures are the ok = FALSE of CnNotify and CoNotify.
SwallowedPcs == {"cn_notify", "co_notify"}

\* The await a handler is suspended on raises (the store or the Bot API
\* fails, the task is cancelled): the exception leaves the handler.  `fault`
\* keeps where it struck.
Inject(t) ==
  /\ ~IsIdle(t)
  /\ tasks[t].pc \notin SwallowedPcs
  /\ faults < MaxFaults
  /\ faults' = faults + 1
  /\ fault' = [h |-> tasks[t].h, pc |-> tasks[t].pc, uid |-> tasks[t].uid,
               cart_id |-> tasks[t].cart_id, items |-> tasks[t].items,
               pre_orders |-> tasks[t].pre_orders, data |-> tasks[t].data]
  /\ Raise(t)
  /\ UNCHANGED <<cartTables, orderTables, otpVars, fsm, events, goc_ret, sent, outbox, cancelled>>

\* ------------------------------------------------------ specifications
Init ==
  /\ users = {}
  /\ carts = {}
  /\ cart_items = {}
  /\ orders = {}
  /\ order_items = {}
  /\ fsm_state = [i \in TgIds |-> "none"]
  /\ fsm_data = [i \in TgIds |-> <<>>]
  /\ faults = 0
  /\ aborted = 0
  /\ fault = NoFault
  /\ email_otps = {}
  /\ now = 0
  /\ ticks = 0
  /\ verdicts = {}
  /\ outbox = {}
  /\ cancelled = {}
  /\ wlock = 0
  /\ tasks = [t \in Tasks |-> Idle]
  /\ events = 0
  /\ goc_ret = [i \in TgIds |-> {}]
  /\ sent = [e \in TgIds \X CartVerbs \X Products |-> 0]

GocStep(t) == GocSelUser(t) \/ GocInsUser(t) \/ GocSelCart(t) \/ GocInsCart(t)

CartStep(t) == CaSelect(t) \/ CaWrite(t) \/ CbShow(t)

\* Cart buttons pressed by any identity, handled as the dispatcher does.
Next ==
  \/ \E t \in Tasks, i \in TgIds, v \in CartVerbs, p \in Products :
       OnCartAction(t, i, v, p, FALSE, MaxEvents)
  \/ \E t \in Tasks : GocStep(t) \/ CartStep(t)

Spec == Init /\ [][Next]_vars

\* The same events, each delivered only after the previous handler returned.
SeqCartNext ==
  \/ \E t \in Tasks, i \in TgIds, v \in CartVerbs, p \in Products :
       OnCartAction(t, i, v, p, TRUE, MaxCartEvents)
  \/ \E t \in Tasks : GocStep(t) \/ CartStep(t)

SeqCart == Init /\ [][SeqCartNext]_vars

CheckoutTexts == {Dash, PaddedDash, MainSt}

CheckoutStep(t) ==
  \/ CsSet(t) \/ AddrSet(t) \/ CnItems(t) \/ CnEmpty(t) \/ CnData(t)
  \/ CnInsOrder(t) \/ CnCommitOrder(t) \/ CnInsItem(t) \/ CnDelete(t)
  \/ CnCommit(t) \/ CnClear(t) \/ CnReport(t)
  \/ \E ok \in BOOLEAN : CnNotify(t, ok)

\* The checkout conversation, one event at a time, with failures injected.
SeqCheckoutNext ==
  \/ \E t \in Tasks, i \in TgIds, p \in Products :
       OnCartAction(t, i, "add", p, TRUE, MaxCheckoutEvents)
  \/ \E t \in Tasks, i \in TgIds : OnCheckout(t, i, TRUE, MaxCheckoutEvents)
  \/ \E t \in Tasks, i \in TgIds, x \in CheckoutTexts :
       \/ OnAddressText(t, i, x, TRUE, MaxCheckoutEvents)
       \/ OnNoteText(t, i, x, TRUE, MaxCheckoutEvents)
  \/ \E t \in Tasks : GocStep(t) \/ CartStep(t) \/ CheckoutStep(t) \/ Inject(t)

SeqCheckout == Init /\ [][SeqCheckoutNext]_vars

\* The checkout conversation, one event at a time, nothing failing.
SeqOrderNext ==
  \/ \E t \in Tasks, i \in TgIds, p \in Products :
       OnCartAction(t, i, "add", p, TRUE, MaxOrderEvents)
  \/ \E t \in Tasks, i \in TgIds : OnCheckout(t, i, TRUE, MaxOrderEvents)
  \/ \E t \in Tasks, i \in TgIds, x \in CheckoutTexts :
       \/ OnAddressText(t, i, x, TRUE, MaxOrderEvents)
       \/ OnNoteText(t, i, x, TRUE, MaxOrderEvents)
  \/ \E t \in Tasks : GocStep(t) \/ CartStep(t) \/ CheckoutStep(t)

SeqOrder == Init /\ [][SeqOrderNext]_vars

\* The checkout conversation with its note messages handled as the
\* dispatcher does: a note may arrive while a handler is in progress.
ConcNoteNext ==
  \/ \E t \in Tasks, i \in TgIds, p \in Products :
       OnCartAction(t, i, "add", p, TRUE, MaxNoteEvents)
  \/ \E t \in Tasks, i \in TgIds : OnCheckout(t, i, TRUE, MaxNoteEvents)
  \/ \E t \in Tasks, i \in TgIds, x \in CheckoutTexts :
       \/ OnAddressText(t, i, x, TRUE, MaxNoteEvents)
       \/ OnNoteText(t, i, x, FALSE, MaxNoteEvents)
  \/ \E t \in Tasks : GocStep(t) \/ CartStep(t) \/ CheckoutStep(t)

ConcNote == Init /\ [][ConcNoteNext]_vars

OtpTexts == {VerifyText, VerifyTextCaps, MailA, Code1, Code2, PaddedCode1, ShortCode}

OtpStep(t) ==
  \/ EvSet(t) \/ EiInsert(t) \/ EiData(t) \/ EiSet(t)
  \/ EcLookup(t) \/ EcWrite(t) \/ EcClear(t)

\* The email verification, one message at a time, while time passes.
SeqOtpNext ==
  \/ \E t \in Tasks, i \in TgIds, x \in OtpTexts :
       \/ OnVerifyText(t, i, x, TRUE, MaxOtpEvents)
       \/ OnCodeText(t, i, x, TRUE, MaxOtpEvents)
       \/ \E c \in OtpCodes : OnEmailText(t, i, x, c, TRUE, MaxOtpEvents)
  \/ \E t \in Tasks : OtpStep(t)
  \/ \E d \in Advances : Tick(d)

SeqOtp == Init /\ [][SeqOtpNext]_vars

FlowTexts == {MainSt, VerifyText, MailA, Code1}

ManualStep(t) ==
  \/ MoSet(t) \/ CdSet(t) \/ CoClear(t) \/ CxData(t) \/ CxClear(t)
  \/ \E ok \in BOOLEAN : CoNotify(t, ok)

\* Every flow of the bot, one update at a time: a cart button, checkout,
\* manual orders, email verification, and the cancel button.
SeqFlowsNext ==
  \/ \E t \in Tasks, i \in TgIds :
       \/ OnCartAction(t, i, "add", 1, TRUE, MaxFlowEvents)
       \/ OnCheckout(t, i, TRUE, MaxFlowEvents)
       \/ OnConfirm(t, i, TRUE, MaxFlowEvents)
       \/ OnCancel(t, i, TRUE, MaxFlowEvents)
       \/ OnBrandOrder(t, i, "waka", TRUE, MaxFlowEvents)
       \/ \E k \in Kinds : OnKindOrder(t, i, k, TRUE, MaxFlowEvents)
  \/ \E t \in Tasks, i \in TgIds, x \in FlowTexts :
       \/ OnAddressText(t, i, x, TRUE, MaxFlowEvents)
       \/ OnNoteText(t, i, x, TRUE, MaxFlowEvents)
       \/ OnDetailsText(t, i, x, TRUE, MaxFlowEvents)
       \/ OnVerifyText(t, i, x, TRUE, MaxFlowEvents)
       \/ OnCodeText(t, i, x, TRUE, MaxFlowEvents)
       \/ OnEmailText(t, i, x, Code1, TRUE, MaxFlowEvents)
  \/ \E t \in Tasks :
       \/ GocStep(t) \/ CartStep(t) \/ CheckoutStep(t) \/ OtpStep(t)
       \/ ManualStep(t)

SeqFlows == Init /\ [][SeqFlowsNext]_vars

\* /start, contact shares and cart buttons, one update at a time.
SeqContactNext ==
  \/ \E t \in Tasks, i \in TgIds :
       \/ OnStart(t, i, TRUE, MaxContactEvents)
       \/ \E ph \in Phones : OnContact(t, i, ph, TRUE, MaxContactEvents)
       \/ OnCartAction(t, i, "add", 1, TRUE, MaxContactEvents)
       \/ OnCheckout(t, i, TRUE, MaxContactEvents)
  \/ \E t \in Tasks :
       \/ OsInsert(t) \/ OsSelect(t) \/ OcWrite(t) \/ CsSet(t)
       \/ GocStep(t) \/ CartStep(t)

SeqContact == Init /\ [][SeqContactNext]_vars

\* Lines built up one press at a time, then decrements handled as the
\* dispatcher does: a decrement may arrive while a handler is in progress.
ConcDecNext ==
  \/ \E t \in Tasks, i \in TgIds, p \in Products :
       \/ OnCartAction(t, i, "add", p, TRUE, MaxDecEvents)
       \/ OnCartAction(t, i, "dec", p, FALSE, MaxDecEvents)
  \/ \E t \in Tasks : GocStep(t) \/ CartStep(t)

ConcDec == Init /\ [][ConcDecNext]_vars

\* The checkout conversation with cart buttons handled as the dispatcher
\* does: an add may arrive while checkout_note is in progress.
ConcAddNext ==
  \/ \E t \in Tasks, i \in TgIds :
       \/ OnCartAction(t, i, "add", 1, FALSE, MaxRaceEvents)
       \/ OnCheckout(t, i, TRUE, MaxRaceEvents)
       \/ OnAddressText(t, i, MainSt, TRUE, MaxRaceEvents)
       \/ OnNoteText(t, i, Dash, TRUE, MaxRaceEvents)
  \/ \E t \in Tasks : GocStep(t) \/ CartStep(t) \/ CheckoutStep(t)

ConcAdd == Init /\ [][ConcAddNext]_vars

ManualTexts == {MainSt, Cola2}

\* The manual-order conversation next to the start of a checkout, one update
\* at a time: the order buttons, the details message, the confirm button in
\* every step, and the cancel button.
SeqManualNext ==
  \/ \E t \in Tasks, i \in TgIds :
       \/ \E b \in Brands : OnBrandOrder(t, i, b, TRUE, MaxManualEvents)
       \/ \E k \in Kinds : OnKindOrder(t, i, k, TRUE, MaxManualEvents)
       \/ OnConfirm(t, i, TRUE, MaxManualEvents)
       \/ OnConfirmUnhandled(t, i, TRUE, MaxManualEvents)
       \/ OnCancel(t, i, TRUE, MaxManualEvents)
       \/ OnCheckout(t, i, TRUE, MaxManualEvents)
  \/ \E t \in Tasks, i \in TgIds, x \in ManualTexts :
       \/ OnDetailsText(t, i, x, TRUE, MaxManualEvents)
       \/ OnAddressText(t, i, x, TRUE, MaxManualEvents)
  \/ \E t \in Tasks :
       \/ ManualStep(t) \/ Unhandled(t) \/ CsSet(t) \/ AddrSet(t)

SeqManual == Init /\ [][SeqManualNext]_vars

\* ================================================================ claims
\* cart_actions has committed its write (it is in its closing cb_cart call).
CaWritten(t) ==
  /\ tasks[t].h = "cart_actions"
  /\ tasks[t].ret = "cb_show" \/ tasks[t].pc = "cb_show"

\* The lines of product p in the carts of identity i.
LinesOf(i, p) ==
  {r \in cart_items : r.product_id = p /\
     \E u \in UserRows(i) : \E c \in CartRows(u.id) : r.cart_id = c.id}

\* C2: with the cart buttons of an identity handled one after the other,
\* every persisted cart_items row has qty >= 1 after each action, and a
\* decrement of a line read with quantity 1 leaves no row for that product.
C2_QtyAtLeastOne ==
  /\ \A r \in cart_items : r.qty >= 1
  /\ \A t \in Tasks :
       (CaWritten(t) /\ tasks[t].act = "dec" /\ tasks[t].row # NoRow
          /\ tasks[t].row.qty <= 1)
       => ItemRows(tasks[t].cart_id, tasks[t].pid) = {}

\* C2 witness: a decrement has removed a line of quantity 1 while another
\* line of the same cart stays with its quantity.
C2_Witness ==
  \E t \in Tasks :
    /\ CaWritten(t) /\ tasks[t].act = "dec" /\ tasks[t].row.qty = 1
    /\ ItemRows(tasks[t].cart_id, tasks[t].pid) = {}
    /\ \E r \in cart_items : r.cart_id = tasks[t].cart_id /\ r.qty >= 2

\* C3 (as claimed): once the handlers have all returned, none of them by an
\* exception, an identity that pressed only "add" for a product, twice or
\* more, has exactly one line of that product, with the number of presses as
\* its quantity, however the handlers interleaved.
C3_AddsNeverLost ==
  \A i \in TgIds, p \in Products :
    (/\ AllIdle
     /\ aborted = 0
     /\ sent[<<i, "add", p>>] >= 2
     /\ \A v \in CartVerbs \ {"add"} : sent[<<i, v, p>>] = 0)
    => \E r \in cart_items :
         LinesOf(i, p) = {r} /\ r.qty = sent[<<i, "add", p>>]

\* C4 (as claimed): no two handlers of one identity are in progress at once.
C4_NoOverlapPerIdentity ==
  \A t1, t2 \in Tasks :
    (t1 # t2 /\ ~IsIdle(t1) /\ ~IsIdle(t2)) => tasks[t1].uid # tasks[t2].uid

\* C8: get_or_create_cart called again and again, one call after the other,
\* returns one and the same cart id for an identity, and the identity then
\* has exactly one users row and exactly one carts row, the one returned.
C8_SameCartInSequence ==
  \A i \in TgIds :
    /\ Cardinality(goc_ret[i]) <= 1
    /\ goc_ret[i] # {} =>
         /\ Cardinality(UserRows(i)) = 1
         /\ \A u \in UserRows(i) :
              /\ Cardinality(CartRows(u.id)) = 1
              /\ {c.id : c \in CartRows(u.id)} = goc_ret[i]

\* C8 witness: the first update of a new identity has called
\* get_or_create_cart twice (in cart_actions, then in its cb_cart) and the
\* second call has returned the cart the first one created.
C8_Witness ==
  \E t \in Tasks :
    /\ events = 1
    /\ At(t, "cb_show")
    /\ goc_ret[tasks[t].uid] = {tasks[t].cart_id}
    /\ Cardinality(carts) = 1 /\ Cardinality(users) = 1

\* C9 (as claimed): with overlapping handlers, there is still at most one
\* carts row per user and every call returns the same cart id.
C9_OneCartUnderInterleaving ==
  \A i \in TgIds :
    /\ Cardinality(goc_ret[i]) <= 1
    /\ \A u \in UserRows(i) : Cardinality(CartRows(u.id)) <= 1

\* The creation sequence of checkout_note: from the orders insert (not yet
\* committed) to the last commit.
CreationPcs == {"cn_commit_order", "cn_ins_item", "cn_delete", "cn_commit"}

\* The (product, quantity) pairs of a cart's rows and of a snapshot.
LinesOfCart(cart_id) ==
  {<<r.product_id, r.qty>> : r \in {x \in cart_items : x.cart_id = cart_id}}
SnapshotLines(items) == {<<items[n].pid, items[n].qty>> : n \in DOMAIN items}

\* C1 (as claimed): after a failure anywhere in the creation sequence the
\* committed store shows either the new order with all of its lines and an
\* empty cart, or no new order header, no new order line and the cart with
\* its pre-checkout lines.
C1_AllOrNothing ==
  (fault.h = "checkout_note" /\ fault.pc \in CreationPcs) =>
    LET new == {o \in orders : o.id \notin fault.pre_orders}
        newLines == {l \in order_items : l.order_id \notin fault.pre_orders}
    IN \/ /\ Cardinality(new) = 1
          /\ \A l \in newLines : \E o \in new : l.order_id = o.id
          /\ {<<l.product_id, l.qty>> : l \in newLines} = SnapshotLines(fault.items)
          /\ LinesOfCart(fault.cart_id) = {}
       \/ /\ new = {}
          /\ newLines = {}
          /\ LinesOfCart(fault.cart_id) = SnapshotLines(fault.items)

\* C10 (as claimed): no step takes an identity whose cart has no lines into
\* waiting_address; its checkout event leaves the step as it was.
C10_EmptyCartRefused ==
  [][\A i \in TgIds :
       (IdentityLines(i) = {} /\ fsm_state[i] # "waiting_address")
       => fsm_state'[i] # "waiting_address"]_vars

\* The identity a challenge was issued to.
OwnerOf(e) == {u.tg_id : u \in {u \in users : u.id = e.user_id}}

\* The challenges a submission could be answered from: those of the
\* submitting identity with the submitted code that were stored by then.
Candidates(v) ==
  {e \in email_otps : v.uid \in OwnerOf(e) /\ e.code = v.code /\ e.id <= v.maxid}

\* Redeemed by a submission before v.
UsedBefore(e, v) == \E w \in verdicts : w.otp = e.id /\ w.n < v.n

\* C5: a challenge is redeemed at most once: no two submissions redeem the
\* same row, a submission of a code whose challenge is unused and has its
\* expiry time still ahead is not answered as invalid, and after a
\* redemption every later submission that only that row could match is
\* answered as invalid.
C5_RedeemedOnce ==
  /\ \A v \in verdicts, w \in verdicts :
       (v.otp # 0 /\ v.otp = w.otp) => v = w
  /\ \A v \in verdicts :
       v.res = "invalid" =>
         ~ \E e \in Candidates(v) : ~UsedBefore(e, v) /\ e.expires_at > v.at
  /\ \A v \in verdicts, w \in verdicts :
       (v.otp # 0 /\ w.n > v.n /\ w.uid = v.uid /\ w.code = v.code
          /\ Candidates(w) = {e \in email_otps : e.id = v.otp})
       => w.res = "invalid"

\* C6: a challenge whose expiry time is not later than the time of the
\* submission is never redeemed: every redeemed row had its expiry ahead
\* when the store was asked, a used flag and a verified flag come only from
\* such a redemption, and a submission that only expired challenges match
\* gets the answer of a wrong code.
C6_ExpiredNeverRedeemed ==
  /\ \A v \in verdicts : \A e \in email_otps :
       e.id = v.otp => e.expires_at > v.at
  /\ \A e \in email_otps :
       e.used = 1 => \E v \in verdicts : v.otp = e.id /\ e.expires_at > v.at
  /\ \A u \in users :
       u.is_verified = 1 =>
         \E v \in verdicts, e \in email_otps :
           v.uid = u.tg_id /\ v.otp = e.id /\ e.expires_at > v.at
  /\ \A v \in verdicts :
       (v.res # "malformed" /\ \A e \in Candidates(v) : e.expires_at <= v.at)
       => (v.res = "invalid" /\ v.otp = 0)

\* The exact code of an expired, unused challenge was submitted and refused.
C6_Witness ==
  \E v \in verdicts, e \in email_otps :
    /\ e \in Candidates(v)
    /\ e.expires_at <= v.at
    /\ v.res = "invalid"
    /\ e.used = 0
    /\ \A u \in users : u.tg_id = v.uid => u.is_verified = 0

\* C7: no submission redeems a challenge while a newer challenge of the same
\* identity is unused and unexpired.
C7_NewestAuthoritative ==
  \A v \in verdicts :
    v.otp # 0 =>
      ~ \E e \in email_otps :
          /\ v.uid \in OwnerOf(e)
          /\ e.id > v.otp
          /\ e.id <= v.maxid
          /\ ~UsedBefore(e, v)
          /\ e.expires_at > v.at

\* The order rows that became visible since checkout_note read the context.
NewOrders(t) == {o \in orders : o.id \notin tasks[t].pre_orders}

\* The sum of qty x price over a set of cart lines.
RECURSIVE LinesValue(_)
LinesValue(rows) ==
  IF rows = {} THEN 0
  ELSE LET r == CHOOSE x \in rows : TRUE IN
         r.qty * Price[r.product_id] + LinesValue(rows \ {r})

\* checkout_note has made its last commit.
Created(t) ==
  tasks[t].h = "checkout_note" /\ tasks[t].pc \in {"cn_clear", "cn_report", "cn_notify"}

\* C11: once a checkout of a non-empty cart has committed, there is exactly
\* one new order, of the identity, with status pending and the sum of
\* qty x price over the cart's lines as its amount; it has one order line per
\* cart line with that line's product, quantity and the product's price; and
\* the cart has no lines.
C11_OrderMatchesCart ==
  \A t \in Tasks :
    Created(t) =>
      LET pre == tasks[t].pre_lines
          new == NewOrders(t)
          lines == {l \in order_items : \E o \in new : l.order_id = o.id}
      IN /\ pre # {}
         /\ Cardinality(new) = 1
         /\ \A o \in new :
              /\ o.status = "pending"
              /\ o.amount = LinesValue(pre)
              /\ \E u \in UserRows(tasks[t].uid) : o.user_id = u.id
         /\ Cardinality(lines) = Cardinality(pre)
         /\ {<<l.product_id, l.qty, l.price>> : l \in lines}
              = {<<r.product_id, r.qty, Price[r.product_id]>> : r \in pre}
         /\ IdentityLines(tasks[t].uid) = {}

\* C11 witness: the cart with product 1 (price 500) twice and product 2
\* (price 1200) once has become one order of 2200 with two lines.
C11_Witness ==
  \E t \in Tasks :
    /\ Created(t)
    /\ {<<r.product_id, r.qty>> : r \in tasks[t].pre_lines} = {<<1, 2>>, <<2, 1>>}
    /\ \E o \in NewOrders(t) :
         /\ o.amount = 2200
         /\ {<<l.product_id, l.qty, l.price>> :
               l \in {x \in order_items : x.order_id = o.id}}
              = {<<1, 2, 500>>, <<2, 1, 1200>>}
    /\ IdentityLines(tasks[t].uid) = {}

\* The units of product p in the order lines of identity i.
RECURSIVE QtySum(_)
QtySum(rows) ==
  IF rows = {} THEN 0
  ELSE LET r == CHOOSE x \in rows : TRUE IN r.qty + QtySum(rows \ {r})

OrderedQty(i, p) ==
  QtySum({l \in order_items :
            /\ l.product_id = p
            /\ \E o \in orders : \E u \in UserRows(i) :
                 l.order_id = o.id /\ o.user_id = u.id})

\* C12 (as claimed): note messages that overlap create at most one order:
\* while a checkout_note handler is in progress at most one order of its
\* identity has appeared since it read the context, and no identity has more
\* units of a product in its orders than it has put into its cart.
C12_OneOrderPerConversation ==
  /\ \A t \in Tasks :
       tasks[t].h = "checkout_note" =>
         Cardinality({o \in NewOrders(t) :
                        \E u \in UserRows(tasks[t].uid) : o.user_id = u.id}) <= 1
  /\ \A i \in TgIds, p \in Products :
       OrderedQty(i, p) <= sent[<<i, "add", p>>]

LineQty(table, cart_id, pid) ==
  QtySum({r \in table : r.cart_id = cart_id /\ r.product_id = pid})

\* C14 (as claimed): the write of a cart action follows the map semantics:
\* add and inc raise the quantity of the product by 1 (from 0 when there is
\* no line), dec lowers it by 1 and removes the line at quantity 1, del
\* removes the line, dec and del of a product with no line change nothing;
\* no other line changes and no error is raised.
C14_MapSemantics ==
  [][\A t \in Tasks :
       (tasks[t].pc = "ca_write" /\ tasks'[t].pc # "ca_write") =>
         LET c == tasks[t].cart_id
             p == tasks[t].pid
             a == tasks[t].act
             before == LineQty(cart_items, c, p)
             after == LineQty(cart_items', c, p)
         IN /\ a \in {"add", "inc"} => after = before + 1
            /\ a = "dec" => after = IF before > 1 THEN before - 1 ELSE 0
            /\ a = "del" => after = 0
            /\ Cardinality({r \in cart_items' :
                              r.cart_id = c /\ r.product_id = p}) <= 1
            /\ {r \in cart_items' : r.cart_id # c \/ r.product_id # p}
                 = {r \in cart_items : r.cart_id # c \/ r.product_id # p}
            /\ aborted' = aborted]_vars

Steps ==
  {"waiting_address", "waiting_note", "waiting_details", "waiting_confirm",
   "waiting_email", "waiting_email_code"}

\* C15: while cancel_order_any_state handles a cancel button, in whatever
\* step, carts, cart_items, orders and order_items do not change, and when
\* it returns the identity has no step and no scratch data.
C15_CancelClearsStep ==
  [][\A t \in Tasks :
       (tasks[t].h = "cancel_order_any_state"
          \/ tasks'[t].h = "cancel_order_any_state") =>
         /\ carts' = carts /\ cart_items' = cart_items
         /\ orders' = orders /\ order_items' = order_items
         /\ (tasks[t].h = "cancel_order_any_state" /\ IsIdle(t)') =>
              /\ fsm_state'[tasks[t].uid] = "none"
              /\ fsm_data'[tasks[t].uid] = <<>>
              /\ aborted' = aborted]_vars

\* C15 witness: a cancel has cleared waiting_note for an identity whose cart
\* still has its line, and no order exists.
C15_Witness ==
  \E i \in TgIds :
    /\ <<i, "waiting_note">> \in cancelled
    /\ AllIdle
    /\ fsm_state[i] = "none" /\ fsm_data[i] = <<>>
    /\ IdentityLines(i) # {}
    /\ orders = {}

\* The notices about the cart order with this id.
CartNotices(order_id) ==
  {m \in outbox : m.about = "cart" /\ m.order_id = order_id}

\* C16: every notice about a cart order was sent after the order was
\* committed with its lines and the cart cleared, the order is still there
\* as reported, and, whether or not a send failed, every admin gets its
\* attempt: an admin without a notice is still ahead in the loop.
C16_NotifyAfterCommit ==
  \A m \in outbox :
    m.about = "cart" =>
      /\ \E o \in orders :
           /\ o.id = m.order_id
           /\ o.status = "pending"
           /\ o.address = m.details
           /\ \E u \in UserRows(m.uid) : o.user_id = u.id
           /\ \E l \in order_items : l.order_id = o.id
      /\ \A j \in DOMAIN AdminSeq :
           \/ \E x \in CartNotices(m.order_id) : x.admin = AdminSeq[j]
           \/ \E t \in Tasks :
                At(t, "cn_notify") /\ tasks[t].order_id = m.order_id
                  /\ tasks[t].k <= j

\* C16 witness: the send to the first admin failed, the second admin was
\* notified all the same, and the order is in the store with its line.
C16_Witness ==
  \E m \in outbox, x \in outbox :
    /\ m.about = "cart" /\ x \in CartNotices(m.order_id)
    /\ m.admin = AdminSeq[1] /\ ~m.ok
    /\ x.admin = AdminSeq[2] /\ x.ok
    /\ AllIdle
    /\ \E o \in orders : o.id = m.order_id
         /\ \E l \in order_items : l.order_id = o.id

\* C17 (as claimed): when on_contact returns, the store holds a users row
\* of the identity with the shared phone number and is_verified = 1.
C17_ContactVerifies ==
  [][\A t \in Tasks :
       (tasks[t].h = "on_contact" /\ IsIdle(t)') =>
         \E u \in users' :
           /\ u.tg_id = tasks[t].uid
           /\ u.phone = tasks[t].phone
           /\ u.is_verified = 1]_vars

\* The handlers of text messages.
TextHandlers ==
  {"catch_details", "email_verify_entry", "email_input", "email_code_check",
   "checkout_address", "checkout_note"}

\* C18 (as claimed): a text message of an identity in waiting_address is
\* taken by checkout_address and by no other handler, whatever the text; it
\* is stored as the address, and when checkout_address returns the step is
\* waiting_note.
C18_AddressTakesAnyText ==
  [][\A t \in Tasks :
       /\ (IsIdle(t) /\ tasks'[t].h \in TextHandlers
             /\ fsm_state[tasks'[t].uid] = "waiting_address") =>
            /\ tasks'[t].h = "checkout_address"
            /\ HasKey(fsm_data'[tasks'[t].uid], "address")
       /\ (tasks[t].h = "checkout_address" /\ IsIdle(t)') =>
            fsm_state'[tasks[t].uid] = "waiting_note"]_vars

\* C19: after a failure while checkout_note creates the order (from the
\* orders insert to the last commit) the identity is still in waiting_note
\* and its context still holds the address the handler had read.
C19_FailureKeepsStep ==
  (fault.h = "checkout_note" /\ fault.pc \in CreationPcs \cup {"cn_ins_order"}) =>
    /\ fsm_state[fault.uid] = "waiting_note"
    /\ HasKey(fsm_data[fault.uid], "address")
    /\ fsm_data[fault.uid]["address"] = fault.data["address"]

\* C19 witness: after a failure that struck once the order header was
\* committed, the note was sent again in the same step and checkout_note
\* has created an order from it.
C19_Witness ==
  /\ faults = 1
  /\ Cardinality(orders) = 2
  /\ \E t \in Tasks :
       /\ Created(t)
       /\ \A o \in orders : \E u \in UserRows(tasks[t].uid) : o.user_id = u.id

\* C20 (as claimed): a manual order confirmed after its identity last chose
\* liquids or pods is reported to the admins under that kind, with no brand
\* of an earlier, abandoned brand order.
C20_LatestKindReported ==
  [][\A t \in Tasks :
       (At(t, "co_notify") /\ HasKey(tasks[t].data, "kind")
          /\ tasks[t].data["kind"] \in Kinds) =>
         \A m \in outbox' \ outbox :
           m.title = <<"kind", tasks[t].data["kind"]>>]_vars

\* C21: a challenge is bound to its identity.  A submission whose code no
\* challenge of the submitting identity carries redeems nothing; a redeemed
\* row belongs to the identity that submitted; a row is used, and a user
\* verified, only through a submission of its own identity.
C21_ChallengeBoundToIdentity ==
  /\ \A v \in verdicts :
       /\ Candidates(v) = {} => v.otp = 0 /\ v.res # "ok"
       /\ \A e \in email_otps : e.id = v.otp => v.uid \in OwnerOf(e)
  /\ \A e \in email_otps :
       e.used = 1 => \E v \in verdicts : v.otp = e.id /\ v.uid \in OwnerOf(e)
  /\ \A u \in users :
       u.is_verified = 1 => \E v \in verdicts : v.uid = u.tg_id /\ v.otp # 0

\* C21 witness: an identity has submitted the exact code of another
\* identity's unused, unexpired challenge, having none with that code; it
\* was refused, the challenge is unused and nobody is verified.
C21_Witness ==
  \E v \in verdicts, e \in email_otps :
    /\ e.code = v.code /\ e.id <= v.maxid
    /\ v.uid \notin OwnerOf(e)
    /\ Candidates(v) = {}
    /\ e.expires_at > v.at
    /\ v.res = "invalid"
    /\ AllIdle
    /\ e.used = 0
    /\ \A u \in users : u.is_verified = 0

\* C22 (as claimed): with decrements of one identity and product handled
\* at once, no cart_items row has qty 0 or a negative qty.
C22_QtyPositiveUnderInterleaving ==
  \A r \in cart_items : r.qty >= 1

\* C23 (as claimed): when checkout_note commits its order lines and the
\* cleared cart, every cart line that disappears is in that order as an
\* order line with the same product and quantity.
C23_ClearsOnlyWhatItOrdered ==
  [][\A t \in Tasks :
       (At(t, "cn_commit") /\ tasks'[t].pc # "cn_commit") =>
         \A r \in cart_items \ cart_items' :
           \E l \in order_items' :
             /\ l.order_id = tasks[t].order_id
             /\ l.product_id = r.product_id
             /\ l.qty = r.qty]_vars

\* C24 (as claimed): a users row with is_verified = 1 has a phone or an
\* email stored.
C24_VerifiedHasContact ==
  \A u \in users : u.is_verified = 1 => (u.phone # Null \/ u.email # Null)

\* C25: when events are handled one at a time, an identity whose step is
\* waiting_note has the key "address" in its FSM data, and the data that
\* checkout_note reads for its INSERT INTO orders has the key as well.
C25_NoteStepHasAddress ==
  /\ \A i \in TgIds :
       fsm_state[i] = "waiting_note" => HasKey(fsm_data[i], "address")
  /\ \A t \in Tasks :
       At(t, "cn_ins_order") => HasKey(tasks[t].data, "address")

\* An order row was inserted by a checkout_note that found the address, while
\* its identity is still in waiting_note.
C25_Witness ==
  \E t \in Tasks :
    /\ At(t, "cn_commit_order")
    /\ fsm_state[tasks[t].uid] = "waiting_note"
    /\ \E o \in tasks[t].tx_orders : o.address = tasks[t].data["address"]

ManualNotices(box) == {n \in box : n.about = "manual"}

\* C26: a manual-order notice is sent only by a confirm_order handler, and
\* that handler takes a confirm press only while the step is waiting_confirm;
\* the step becomes waiting_confirm only through catch_details taking a
\* message in waiting_details; a confirm press in any other step is dropped
\* and changes neither the store, the FSM context nor the notices; when
\* confirm_order ends, the step and the FSM data of its identity are cleared.
C26_ConfirmOnlyInWaitingConfirm ==
  [][/\ \A t \in Tasks :
          (tasks[t].h = "idle" /\ tasks'[t].h = "confirm_order") =>
            fsm_state[tasks'[t].uid] = "waiting_confirm"
     /\ ManualNotices(outbox') # ManualNotices(outbox) =>
          \E t \in Tasks :
            /\ At(t, "co_notify")
            /\ tasks[t].h = "confirm_order"
            /\ \A n \in outbox' \ outbox : n.uid = tasks[t].uid
     /\ \A i \in TgIds :
          (fsm_state[i] # "waiting_confirm" /\ fsm_state'[i] = "waiting_confirm") =>
            /\ fsm_state[i] = "waiting_details"
            /\ HasKey(fsm_data[i], "details")
            /\ \E t \in Tasks :
                 tasks[t].h = "catch_details" /\ tasks[t].uid = i
     /\ \A t \in Tasks :
          (tasks[t].h = "idle" /\ tasks'[t].h = "unhandled") =>
            /\ fsm_state[tasks'[t].uid] # "waiting_confirm"
            /\ UNCHANGED <<cartTables, orderTables, fsm, outbox>>
     /\ \A t \in Tasks :
          (tasks[t].h = "unhandled" /\ tasks'[t] # tasks[t]) =>
            UNCHANGED <<cartTables, orderTables, fsm, outbox>>
     /\ \A t \in Tasks :
          (At(t, "co_clear") /\ tasks'[t].h = "idle") =>
            /\ fsm_state'[tasks[t].uid] = "none"
            /\ fsm_data'[tasks[t].uid] = <<>>]_vars

\* A confirm press was dropped for an identity whose manual order has been
\* announced and whose step and data are cleared.
C26_Witness ==
  \E t \in Tasks :
    /\ tasks[t].h = "unhandled"
    /\ fsm_state[tasks[t].uid] = "none"
    /\ fsm_data[tasks[t].uid] = <<>>
    /\ \E n \in ManualNotices(outbox) : n.uid = tasks[t].uid

====
